---- MODULE Spec2Model ----
(* NSGA-III (jmetal/algorithm/multiobjective/nsgaiii.py): construction,     *)
(* structured reference point generation and the replacement policy.        *)
(* Python lists are sequences; list index e is sequence index e + 1.        *)
(* A float quotient n / d is kept as the exact fraction [num |-> n,         *)
(* den |-> d].  Solutions are identified by the integers 1..N.              *)
EXTENDS Integers, Sequences, FiniteSets

\* largest problem.number_of_objectives explored
MaxObjs == 3
\* largest num_divisions_per_obj passed to generate_reference_points
MaxDivisions == 4
\* replacement is explored for population sizes up to this value
MaxPopulation == 8
\* largest combined list (population + offspring) given to replacement
MaxCombined == 12
\* default value of the parameter num_divisions_per_obj
DefaultDivisions == 4

VARIABLES
    number_of_objectives,       \* problem.number_of_objectives
    constructed,                \* NSGAIII.__init__ has completed
    reference_points,           \* self.reference_points
    population_size,            \* self.population_size
    offspring_population_size,  \* self.offspring_population_size
    op,                         \* the method call whose record is held below
    num_objs,                   \* generate_reference_points: argument
    num_divisions_per_obj,      \* generate_reference_points: argument
    points,                     \* generate_reference_points: returned list
    ranking,                    \* replacement: fronts of population + offspring
    ranking_index,              \* replacement: local ranking_index at line 108
    k,                          \* replacement: k given to EnvironmentalSelection
    pop,                        \* replacement: local pop (returned list)
    outcome                     \* replacement: "returned" or "raised"

vars == << number_of_objectives, constructed, reference_points, population_size,
           offspring_population_size, op, num_objs, num_divisions_per_obj,
           points, ranking, ranking_index, k, pop, outcome >>

object == << number_of_objectives, constructed, reference_points,
             population_size, offspring_population_size >>

\* ---------------------------------------------------------------- helpers

Min(a, b) == IF a <= b THEN a ELSE b

\* i / total
Quotient(n, d) == [num |-> n, den |-> d]

\* [0] * num_objs
ZeroPosition(n) == [e \in 1..n |-> Quotient(0, 1)]

RECURSIVE gen_refs_recursive(_, _, _, _, _)
RECURSIVE gen_refs_loop(_, _, _, _, _, _)
RECURSIVE gen_refs_loop_keeps_left(_, _, _, _, _, _)

\* gen_refs_loop recursing with left in place of left - i
gen_refs_loop_keeps_left(position, n, left, total, element, i) ==
    IF i >= left
    THEN << >>
    ELSE gen_refs_recursive([position EXCEPT ![element + 1] = Quotient(i, total)],
                            n, left, total, element + 1)
         \o gen_refs_loop_keeps_left(position, n, left, total, element, i + 1)

\* the body of `for i in range(left)`, from iteration i on
gen_refs_loop(position, n, left, total, element, i) ==
    IF i >= left
    THEN << >>
    ELSE gen_refs_recursive([position EXCEPT ![element + 1] = Quotient(i, total)],
                            n, left - i, total, element + 1)
         \o gen_refs_loop(position, n, left, total, element, i + 1)

gen_refs_recursive(position, n, left, total, element) ==
    IF element = n - 1
    THEN << [position EXCEPT ![element + 1] = Quotient(left, total)] >>
    ELSE gen_refs_loop(position, n, left, total, element, 0)

generate_reference_points(n, divisions) ==
    gen_refs_recursive(ZeroPosition(n), n, n * divisions, n * divisions, 0)

\* RoundUpPopulationSize stepping to the next even size only
RECURSIVE RoundUpToEven(_)
RoundUpToEven(size) ==
    IF size % 2 > 0 THEN RoundUpToEven(size + 1) ELSE size

\* self.population_size = len(...); while self.population_size % 4 > 0: += 1
RECURSIVE RoundUpPopulationSize(_)
RoundUpPopulationSize(size) ==
    IF size % 4 > 0 THEN RoundUpPopulationSize(size + 1) ELSE size

\* ranking.get_subfront(index), index within range
get_subfront(r, index) == r[index + 1]

\* number of fronts held by the ranking
NumberOfFronts(r) == Len(r)

\* AccumulateFronts taking a front whole also when it fills pop exactly
RECURSIVE AccumulateFrontsExactFit(_, _, _, _)
AccumulateFrontsExactFit(r, size, index, acc) ==
    IF Len(acc) < size
    THEN IF index >= NumberOfFronts(r)
         THEN [raised |-> TRUE, ranking_index |-> index, pop |-> acc]
         ELSE IF Len(get_subfront(r, index)) <= size - Len(acc)
              THEN AccumulateFrontsExactFit(r, size, index + 1,
                                            acc \o get_subfront(r, index))
              ELSE [raised |-> FALSE, ranking_index |-> index, pop |-> acc]
    ELSE [raised |-> FALSE, ranking_index |-> index, pop |-> acc]

\* AccumulateFronts assigning the front to pop in place of appending it
RECURSIVE AccumulateFrontsOverwrite(_, _, _, _)
AccumulateFrontsOverwrite(r, size, index, acc) ==
    IF Len(acc) < size
    THEN IF index >= NumberOfFronts(r)
         THEN [raised |-> TRUE, ranking_index |-> index, pop |-> acc]
         ELSE IF Len(get_subfront(r, index)) < size - Len(acc)
              THEN AccumulateFrontsOverwrite(r, size, index + 1, get_subfront(r, index))
              ELSE [raised |-> FALSE, ranking_index |-> index, pop |-> acc]
    ELSE [raised |-> FALSE, ranking_index |-> index, pop |-> acc]

\* the while loop of replacement; yields the locals when the loop is left
RECURSIVE AccumulateFronts(_, _, _, _)
AccumulateFronts(r, size, index, acc) ==
    IF Len(acc) < size
    THEN IF index >= NumberOfFronts(r)
         THEN [raised |-> TRUE, ranking_index |-> index, pop |-> acc]
         ELSE IF Len(get_subfront(r, index)) < size - Len(acc)
              THEN AccumulateFronts(r, size, index + 1, acc \o get_subfront(r, index))
              ELSE [raised |-> FALSE, ranking_index |-> index, pop |-> acc]
    ELSE [raised |-> FALSE, ranking_index |-> index, pop |-> acc]

\* fronts of a combined list of n solutions: non-empty, disjoint, in rank order
RECURSIVE FrontsFrom(_, _, _)
FrontsFrom(cuts, first, n) ==
    IF first > n
    THEN << >>
    ELSE LET last == CHOOSE c \in (cuts \cup {n}) :
                         c >= first /\ \A d \in (cuts \cup {n}) : d >= first => c <= d
         IN << [j \in 1..(last - first + 1) |-> first + j - 1] >>
            \o FrontsFrom(cuts, last + 1, n)

Rankings(n) == { FrontsFrom(cuts, 1, n) : cuts \in SUBSET (1..(n - 1)) }

\* elements of the list s
Elems(s) == { s[j] : j \in 1..Len(s) }

\* the sublist of s with the members of keep, in the order of s
RECURSIVE Restrict(_, _)
Restrict(s, keep) ==
    IF s = << >> THEN << >>
    ELSE IF Head(s) \in keep THEN << Head(s) >> \o Restrict(Tail(s), keep)
         ELSE Restrict(Tail(s), keep)

\* EnvironmentalSelection(k = count).execute(front): the lists it may return
EnvironmentalSelection(front, count) ==
    { Restrict(front, keep) :
          keep \in { c \in SUBSET Elems(front) : Cardinality(c) = count } }

\* number of solutions in all fronts
RECURSIVE CombinedSize(_)
CombinedSize(r) == IF r = << >> THEN 0 ELSE Len(Head(r)) + CombinedSize(Tail(r))

\* ---------------------------------------------------------------- state

NoCall ==
    /\ op = "none"
    /\ num_objs = 0 /\ num_divisions_per_obj = 0 /\ points = << >>
    /\ ranking = << >> /\ ranking_index = 0 /\ k = 0 /\ pop = << >>
    /\ outcome = "none"

Init ==
    /\ number_of_objectives \in 0..MaxObjs
    /\ constructed = FALSE
    /\ reference_points = << >>
    /\ population_size = 0
    /\ offspring_population_size = 0
    /\ NoCall

\* NSGAIII.__init__
NSGAIII_init ==
    /\ ~constructed
    /\ constructed' = TRUE
    /\ reference_points' = generate_reference_points(number_of_objectives, DefaultDivisions)
    /\ population_size' = RoundUpPopulationSize(Len(reference_points'))
    /\ offspring_population_size' = population_size'
    /\ UNCHANGED << number_of_objectives, op, num_objs, num_divisions_per_obj,
                    points, ranking, ranking_index, k, pop, outcome >>

\* a call self.generate_reference_points(n, divisions)
GenerateReferencePoints(n, divisions) ==
    /\ constructed /\ op = "none"
    /\ op' = "generate_reference_points"
    /\ num_objs' = n
    /\ num_divisions_per_obj' = divisions
    /\ points' = generate_reference_points(n, divisions)
    /\ UNCHANGED << object, ranking, ranking_index, k, pop, outcome >>

\* self.replacement(population, offspring_population) where the combined list
\* is ranked into the fronts r
replacement(r) ==
    /\ op' = "replacement"
    /\ ranking' = r
    /\ LET loop == AccumulateFronts(r, population_size, 0, << >>)
           count == population_size - Len(loop.pop)
       IN /\ ranking_index' = loop.ranking_index
          /\ k' = count
          /\ IF loop.raised \/ loop.ranking_index >= NumberOfFronts(r)
             THEN /\ outcome' = "raised"
                  /\ pop' = loop.pop
             ELSE IF count > Len(get_subfront(r, loop.ranking_index))
                  THEN /\ outcome' = "raised"
                       /\ pop' = loop.pop
                  ELSE /\ outcome' = "returned"
                       /\ \E chosen \in EnvironmentalSelection(
                                  get_subfront(r, loop.ranking_index), count) :
                              pop' = loop.pop \o chosen
    /\ UNCHANGED << object, num_objs, num_divisions_per_obj, points >>

\* a call of replacement on any population and offspring population
Replacement ==
    /\ constructed /\ op = "none"
    /\ population_size <= MaxPopulation
    /\ \E n \in 0..Min(2 * population_size, MaxCombined) :
           \E r \in Rankings(n) : replacement(r)

\* the caller takes the result of the call
Return ==
    /\ op # "none"
    /\ op' = "none"
    /\ num_objs' = 0 /\ num_divisions_per_obj' = 0 /\ points' = << >>
    /\ ranking' = << >> /\ ranking_index' = 0 /\ k' = 0 /\ pop' = << >>
    /\ outcome' = "none"
    /\ UNCHANGED object

Next ==
    \/ NSGAIII_init
    \/ \E n \in 0..MaxObjs, divisions \in 1..MaxDivisions :
           GenerateReferencePoints(n, divisions)
    \/ Replacement
    \/ Return

Spec == Init /\ [][Next]_vars
\* ---------------------------------------------------------------- properties

RECURSIVE Binomial(_, _)
Binomial(n, c) ==
    IF c = 0 THEN 1
    ELSE IF n = 0 THEN 0
    ELSE Binomial(n - 1, c - 1) + Binomial(n - 1, c)

RECURSIVE SumOfNumerators(_)
SumOfNumerators(p) == IF p = << >> THEN 0 ELSE Head(p).num + SumOfNumerators(Tail(p))

\* the solutions of fronts lo..hi (0-based) of r
FrontsElems(r, lo, hi) ==
    UNION { Elems(r[j + 1]) : j \in { i \in lo..hi : i < Len(r) } }

\* number of solutions in the first count fronts of r
RECURSIVE FrontsSize(_, _)
FrontsSize(r, count) ==
    IF count = 0 \/ r = << >> THEN 0 ELSE Len(Head(r)) + FrontsSize(Tail(r), count - 1)

GeneratedCall ==
    op = "generate_reference_points" /\ num_objs >= 1 /\ num_divisions_per_obj >= 1

ReplacementReturned == op = "replacement" /\ outcome = "returned"

\* C1: whenever the combined list has at least population_size solutions,
\* replacement returns a list of exactly population_size solutions.
C1_ReplacementSize ==
    (op = "replacement" /\ CombinedSize(ranking) >= population_size)
        => (outcome = "returned" /\ Len(pop) = population_size)

\* C2: generate_reference_points(M, H) returns C(H+M-1, M-1) points.
C2_PointCount ==
    GeneratedCall
        => Len(points) = Binomial(num_divisions_per_obj + num_objs - 1, num_objs - 1)

\* C3: every coordinate of every generated point equals a/H for an integer
\* a with 0 <= a <= H.
C3_MultiplesOfOneOverH ==
    GeneratedCall
        => \A j \in 1..Len(points) : \A e \in 1..Len(points[j]) :
               \E a \in 0..num_divisions_per_obj :
                   points[j][e].num * num_divisions_per_obj = a * points[j][e].den

\* C4: the coordinates of every generated point are non-negative fractions
\* over one common denominator whose numerators add up to that denominator.
C4_CoordinatesSumToOne ==
    GeneratedCall
        => \A j \in 1..Len(points) :
               /\ Len(points[j]) = num_objs
               /\ \A e \in 1..num_objs :
                      /\ points[j][e].den = points[j][1].den
                      /\ points[j][e].den > 0
                      /\ points[j][e].num >= 0
               /\ SumOfNumerators(points[j]) = points[j][1].den

C4_Witness ==
    GeneratedCall /\ num_objs >= 3 /\ num_divisions_per_obj >= 2 /\ Len(points) > 1

\* C5: after construction population_size is the smallest multiple of 4 not
\* below the number of reference points, and offspring_population_size
\* equals population_size.
C5_PopulationSizeRounding ==
    constructed
        => /\ population_size % 4 = 0
           /\ Len(reference_points) <= population_size
           /\ population_size < Len(reference_points) + 4
           /\ offspring_population_size = population_size

C5_Witness == constructed /\ Len(reference_points) % 4 # 0

\* C6: with the default divisions, 2 objectives give population_size 8 and
\* 3 objectives give population_size 16.
C6_DefaultPopulationSizes ==
    constructed
        => /\ number_of_objectives = 2 => population_size = 8
           /\ number_of_objectives = 3 => population_size = 16

\* C7: construction never completes for zero objectives, zero reference
\* points or a population size of 0.
C7_NoDegenerateConstruction ==
    constructed
        => /\ number_of_objectives > 0
           /\ Len(reference_points) > 0
           /\ population_size > 0

\* C8: with b the index of the boundary front, the returned population holds
\* every solution of fronts 0..b-1, its other solutions come from front b,
\* and it holds no solution of a front after b.
C8_FrontsInRankOrder ==
    ReplacementReturned
        => /\ FrontsElems(ranking, 0, ranking_index - 1) \subseteq Elems(pop)
           /\ Elems(pop) \ FrontsElems(ranking, 0, ranking_index - 1)
                  \subseteq Elems(get_subfront(ranking, ranking_index))
           /\ Elems(pop) \cap FrontsElems(ranking, ranking_index + 1, Len(ranking)) = {}

C8_Witness ==
    /\ ReplacementReturned
    /\ ranking_index >= 2
    /\ ranking_index + 1 < NumberOfFronts(ranking)
    /\ k >= 1
    /\ k < Len(get_subfront(ranking, ranking_index))

\* C9: environmental selection is invoked only on a front whose size strictly
\* exceeds the remaining slots; a front that fits is added whole.
C9_SelectionOnlyOnOverflow ==
    ReplacementReturned => Len(get_subfront(ranking, ranking_index)) > k

\* C10: with population_size >= 1 and at least population_size solutions, the
\* loop stops at an existing front and 1 <= k <= size of that front.
C10_BoundaryFrontExists ==
    (op = "replacement" /\ population_size >= 1
        /\ CombinedSize(ranking) >= population_size)
        => /\ ranking_index < NumberOfFronts(ranking)
           /\ k = population_size - FrontsSize(ranking, ranking_index)
           /\ 1 <= k
           /\ k <= Len(get_subfront(ranking, ranking_index))

C10_Witness ==
    /\ op = "replacement" /\ population_size >= 1
    /\ CombinedSize(ranking) = population_size
    /\ NumberOfFronts(ranking) >= 2
    /\ ranking_index = NumberOfFronts(ranking) - 1
====
